---- MODULE Spec2Model ----
(***************************************************************************)
(* Global CO2 Emissions Dashboard (src/app.py).                            *)
(*                                                                         *)
(* The dashboard is a Streamlit script: every interaction with a widget    *)
(* re-runs the whole script top to bottom against the cached data set.     *)
(* The state is the loaded data set, the two slider values and what the    *)
(* last run of the script put on the page.                                 *)
(*                                                                         *)
(* Numbers.  Emissions are whole GtCO2.  The scalar KPIs are IEEE floats   *)
(* in the script; they are modelled as exact rationals extended with inf,  *)
(* -inf and nan (records [k, n, d]).  The regression's predictions are     *)
(* fixed-point numbers, in units of 1/Resolution GtCO2, the floor of the   *)
(* exact least-squares value.                                              *)
(***************************************************************************)
EXTENDS Integers, Sequences, FiniteSets

VARIABLES df, year_range, forecast_horizon, out

vars == <<df, year_range, forecast_horizon, out>>

(***************************************************************************)
(* Bounds of the model and constants of the program.                       *)
(***************************************************************************)
\* the data set's years are drawn from the last YearSpan + 1 years of the
\* period the dashboard covers
YearSpan == 2
\* the horizons tried besides the slider's minimum, default and maximum:
\* HorizonMin .. HorizonMin + HorizonSpan
HorizonSpan == 1

DataMaxYear == 2020
HorizonMin == 2030
HorizonMax == 2100
HorizonDefault == 2050
CARBON_BUDGET_GT == 400
IndustrializationStart == 1850
Post1950Start == 1950
Resolution == 10

EmissionChoices == {0, 150, 400}
YearChoices == (DataMaxYear - YearSpan)..DataMaxYear
EraYearChoices == {IndustrializationStart - 1, IndustrializationStart,
                   Post1950Start - 1, Post1950Start}
HorizonChoices ==
    {HorizonDefault, HorizonMax} \cup (HorizonMin..(HorizonMin + HorizonSpan))

(***************************************************************************)
(* Arithmetic helpers.                                                     *)
(***************************************************************************)
Abs(n) == IF n < 0 THEN -n ELSE n

RECURSIVE GCD(_, _)
GCD(a, b) == IF b = 0 THEN a ELSE GCD(b, a % b)

RECURSIVE Pow10(_)
Pow10(p) == IF p = 0 THEN 1 ELSE 10 * Pow10(p - 1)

\* s[a] + ... + s[b]
RECURSIVE SumRange(_, _, _)
SumRange(s, a, b) ==
    IF a > b THEN 0
    ELSE IF a = b THEN s[a]
    ELSE LET m == (a + b) \div 2 IN SumRange(s, a, m) + SumRange(s, m + 1, b)

SumSeq(s) == SumRange(s, 1, Len(s))

\* <<base + s[a], base + s[a] + s[a+1], ..., base + s[a] + ... + s[b]>>, a <= b
RECURSIVE cumsum(_, _, _, _)
cumsum(s, a, b, base) ==
    IF a = b THEN <<base + s[a]>>
    ELSE LET m == (a + b) \div 2
             left == cumsum(s, a, m, base)
         IN  left \o cumsum(s, m + 1, b, left[Len(left)])

\* <<q, r>> with a * b = q * c + r and 0 <= r < c, for 0 <= a < c and b >= 0,
\* by doubling, so that no intermediate value exceeds 3 * c
RECURSIVE MulDiv(_, _, _)
MulDiv(a, b, c) ==
    IF b = 0 THEN <<0, 0>>
    ELSE LET h == MulDiv(a, b \div 2, c)
             t == 2 * h[2] + (b % 2) * a
         IN  <<2 * h[1] + (t \div c), t % c>>

(***************************************************************************)
(* Floats: rationals n/d in lowest terms (d > 0), inf, -inf and nan.       *)
(***************************************************************************)
Fin(n, d) ==
    LET g == GCD(Abs(n), d) IN [k |-> "fin", n |-> n \div g, d |-> d \div g]
Inf == [k |-> "inf", n |-> 0, d |-> 1]
NegInf == [k |-> "-inf", n |-> 0, d |-> 1]
NaN == [k |-> "nan", n |-> 0, d |-> 1]

\* a / b of two finite floats: x/0 is inf, -inf or (0/0) nan, with a warning
\* and no exception
FDiv(a, b) ==
    IF b.n # 0
    THEN IF b.n > 0 THEN Fin(a.n * b.d, a.d * b.n)
                    ELSE Fin(-(a.n * b.d), a.d * (-b.n))
    ELSE IF a.n > 0 THEN Inf ELSE IF a.n < 0 THEN NegInf ELSE NaN

FAdd(x, y) ==
    IF x.k = "nan" \/ y.k = "nan" THEN NaN
    ELSE IF x.k = "fin" /\ y.k = "fin" THEN Fin(x.n * y.d + y.n * x.d, x.d * y.d)
    ELSE IF x.k = "fin" THEN y
    ELSE IF y.k = "fin" THEN x
    ELSE IF x.k = y.k THEN x ELSE NaN

\* x - c and x * c (c > 0) and x / c (c > 0) for an integer c
FSubInt(x, c) == IF x.k = "fin" THEN Fin(x.n - c * x.d, x.d) ELSE x
FMulInt(x, c) == IF x.k = "fin" THEN Fin(x.n * c, x.d) ELSE x
FDivInt(x, c) == IF x.k = "fin" THEN Fin(x.n, x.d * c) ELSE x

\* Python's max(x, 0): 0 when 0 > x, else x (so nan stays nan)
PyMax0(x) ==
    IF x.k = "-inf" \/ (x.k = "fin" /\ x.n < 0) THEN Fin(0, 1) ELSE x

\* n / d (n >= 0, d > 0) rounded to the nearest integer, ties to even
RoundHalfEven(n, d) ==
    LET q == n \div d
        r == n % d
    IN  IF 2 * r > d THEN q + 1
        ELSE IF 2 * r < d THEN q
        ELSE IF q % 2 = 0 THEN q ELSE q + 1

\* f"{x:.{p}f}": the decimal string with p digits, as the sign and the number
\* of units of 10^-p; "inf", "-inf" and "nan" for the non-finite floats
Format(x, p) ==
    IF x.k = "fin"
    THEN [k |-> "num", neg |-> x.n < 0,
          v |-> RoundHalfEven(Abs(x.n) * Pow10(p), x.d)]
    ELSE [k |-> x.k, neg |-> x.k = "-inf", v |-> 0]

NotRendered == [k |-> "none", neg |-> FALSE, v |-> 0]

(***************************************************************************)
(* The data set: load_data() returns the rows of global_emissions ordered  *)
(* by year.  One row per year, and at least two rows, so that the range    *)
(* slider's bounds differ (min_year < max_year).                           *)
(***************************************************************************)
RECURSIVE SortedYears(_)
SortedYears(Y) ==
    IF Y = {} THEN <<>>
    ELSE LET m == CHOOSE y \in Y : \A z \in Y : y <= z
         IN  <<m>> \o SortedYears(Y \ {m})

SeriesOf(Y, f) ==
    LET ys == SortedYears(Y)
    IN  [i \in 1..Len(ys) |-> [year |-> ys[i], emissions |-> f[ys[i]]]]

load_data(choices) ==
    UNION { {SeriesOf(Y, f) : f \in [Y -> EmissionChoices]} :
            Y \in {Z \in SUBSET choices : Cardinality(Z) >= 2} }

YearsOf(d) == {d[i].year : i \in 1..Len(d)}
min_year(d) == CHOOSE y \in YearsOf(d) : \A z \in YearsOf(d) : y <= z
max_year(d) == CHOOSE y \in YearsOf(d) : \A z \in YearsOf(d) : y >= z

(***************************************************************************)
(* Sidebar: the year-range slider and the filter.                          *)
(***************************************************************************)
\* the pairs the range slider can hold: lo <= hi, both between the bounds
SliderRanges(d) ==
    {<<lo, hi>> \in (min_year(d)..max_year(d)) \X (min_year(d)..max_year(d)) :
        lo <= hi}

filtered_df(d, range) ==
    LET InRange(r) == r.year >= range[1] /\ r.year <= range[2]
    IN  SelectSeq(d, InRange)

(***************************************************************************)
(* KPI metrics of the filtered series.                                     *)
(***************************************************************************)
Emission(f, i) == Fin(f[i].emissions, 1)

latest_metric(f) == Format(Emission(f, Len(f)), 2)

growth(f) == FMulInt(FSubInt(FDiv(Emission(f, Len(f)), Emission(f, 1)), 1), 100)

\* Series.pct_change(): nan for the first row, e[i] / e[i-1] - 1 after it
pct_change(f) ==
    [i \in 1..Len(f) |->
        IF i = 1 THEN NaN ELSE FSubInt(FDiv(Emission(f, i), Emission(f, i - 1)), 1)]

RECURSIVE FSum(_)
FSum(s) == IF s = <<>> THEN Fin(0, 1) ELSE FAdd(Head(s), FSum(Tail(s)))

\* Series.mean(): nan values are skipped; nan when nothing is left
mean(s) ==
    LET IsNumber(x) == x.k # "nan"
        kept == SelectSeq(s, IsNumber)
    IN  IF kept = <<>> THEN NaN ELSE FDivInt(FSum(kept), Len(kept))

avg_growth(f) == FMulInt(mean(pct_change(f)), 100)

(***************************************************************************)
(* Emissions regimes of the full series.                                   *)
(***************************************************************************)
classify_era(year) ==
    IF year < IndustrializationStart THEN "Pre-Industrial"
    ELSE IF year < Post1950Start THEN "Industrialization"
    ELSE "Post-1950 Acceleration"

\* the order of first occurrence by ascending year, groupby(sort=False)
EraOrderChronological ==
    <<"Pre-Industrial", "Industrialization", "Post-1950 Acceleration">>

\* the order DataFrame.groupby gives its groups: the keys sorted as strings
GroupKeyOrder ==
    <<"Industrialization", "Post-1950 Acceleration", "Pre-Industrial">>

era_summary(d) ==
    LET Members(l) == SelectSeq(d, LAMBDA r : classify_era(r.year) = l)
        HasMembers(l) == Members(l) # <<>>
        keys == SelectSeq(GroupKeyOrder, HasMembers)
        Total(l) == SumSeq([i \in 1..Len(Members(l)) |-> Members(l)[i].emissions])
    IN  [j \in 1..Len(keys) |->
            [era |-> keys[j],
             emissions |-> FDivInt(Fin(Total(keys[j]), 1), Len(Members(keys[j])))]]

(***************************************************************************)
(* Forecast: PolynomialFeatures(degree=2) and LinearRegression on the full *)
(* series.  LinearRegression centres the columns [1, year, year^2] and     *)
(* solves the least-squares problem with lstsq, which returns the          *)
(* minimum-norm solution when the problem is underdetermined:              *)
(*   2 rows   the coefficients of (year, year^2) are proportional to       *)
(*            (x2 - x1, x2^2 - x1^2);                                      *)
(*   3+ rows  the unique least-squares parabola, here from the normal      *)
(*            equations in t = year - max(year) (the fitted values do not  *)
(*            depend on the origin) by Cramer's rule.                      *)
(***************************************************************************)
Det3(m) ==
      m[1][1] * (m[2][2] * m[3][3] - m[2][3] * m[3][2])
    - m[1][2] * (m[2][1] * m[3][3] - m[2][3] * m[3][1])
    + m[1][3] * (m[2][1] * m[3][2] - m[2][2] * m[3][1])

RECURSIVE Power(_, _)
Power(t, p) == IF p = 0 THEN 1 ELSE t * Power(t, p - 1)

\* the model state after fit: the numerators num and the denominator den of
\* the parabola's coefficients in t = year - origin, and the rows themselves
\* for the two-row case
model_fit(d) ==
    LET n == Len(d)
        o == d[n].year
        t == [i \in 1..n |-> d[i].year - o]
        e == [i \in 1..n |-> d[i].emissions]
        s0 == n
        s1 == SumSeq(t)
        s2 == SumSeq([i \in 1..n |-> Power(t[i], 2)])
        s3 == SumSeq([i \in 1..n |-> Power(t[i], 3)])
        s4 == SumSeq([i \in 1..n |-> Power(t[i], 4)])
        t0 == SumSeq(e)
        t1 == SumSeq([i \in 1..n |-> e[i] * t[i]])
        t2 == SumSeq([i \in 1..n |-> e[i] * Power(t[i], 2)])
    IN  IF n = 2
        THEN [rows |-> 2, origin |-> o, num |-> <<0, 0, 0>>, den |-> 1, data |-> d]
        ELSE [rows |-> n, origin |-> o,
              num |-> <<Det3(<<<<t0, s1, s2>>, <<t1, s2, s3>>, <<t2, s3, s4>>>>),
                        Det3(<<<<s0, t0, s2>>, <<s1, t1, s3>>, <<s2, t2, s4>>>>),
                        Det3(<<<<s0, s1, t0>>, <<s1, s2, t1>>, <<s2, s3, t2>>>>)>>,
              den |-> Det3(<<<<s0, s1, s2>>, <<s1, s2, s3>>, <<s2, s3, s4>>>>),
              data |-> <<>>]

\* floor(Resolution * a / b) for b > 0
FloorScaled(a, b) == (a \div b) * Resolution + (((a % b) * Resolution) \div b)

\* the two-row prediction at year x, floor(Resolution * yhat):
\*   yhat = (y1 + y2)/2 + (y2 - y1) * H / (d * M),
\*   d = x2 - x1,  s = x1 + x2,  M = 1 + s^2,
\*   H = (x - s/2) + s * (x^2 - (x1^2 + x2^2)/2)    (an integer)
PredictTwoRows(data, x) ==
    LET x1 == data[1].year
        x2 == data[2].year
        y1 == data[1].emissions
        y2 == data[2].emissions
        d == x2 - x1
        s == x1 + x2
        q == x1 * x1 + x2 * x2
        M == 1 + s * s
        H == IF s % 2 = 0
             THEN (x - (s \div 2)) + s * (x * x - (q \div 2))
             ELSE x + s * ((2 * x * x - q - 1) \div 2)
        Q == H \div M
        R == H % M
        dy == y2 - y1
        A == Resolution * (y1 + y2) * d + 2 * Resolution * dy * Q
        md == MulDiv(R, 2 * Resolution * Abs(dy), M)
        B == IF dy >= 0 THEN md[1]
             ELSE IF md[2] = 0 THEN -md[1] ELSE -md[1] - 1
    IN  (A + B) \div (2 * d)

\* model.predict at year x, in units of 1/Resolution
model_predict(m, x) ==
    IF m.rows = 2 THEN PredictTwoRows(m.data, x)
    ELSE LET t == x - m.origin
         IN  FloorScaled(m.num[1] + m.num[2] * t + m.num[3] * t * t, m.den)

\* np.arange(df.year.max(), forecast_horizon): the horizon year left out
future_years_exclusive(d, h) ==
    LET first == max_year(d)
    IN  IF h > first THEN [i \in 1..(h - first) |-> first + i - 1] ELSE <<>>

\* np.arange(df.year.max(), forecast_horizon + 1)
future_years(d, h) ==
    LET first == max_year(d)
        stop == h + 1
    IN  IF stop > first THEN [i \in 1..(stop - first) |-> first + i - 1] ELSE <<>>

future_emissions(d, h) ==
    LET m == model_fit(d)
        ys == future_years(d, h)
    IN  [i \in 1..Len(ys) |-> model_predict(m, ys[i])]

(***************************************************************************)
(* Carbon budget and cumulative emissions of the full series.              *)
(***************************************************************************)
EmissionsOf(d) == [i \in 1..Len(d) |-> d[i].emissions]

\* df["emissions"].cumsum()
cumulative_emissions(d) == cumsum(EmissionsOf(d), 1, Len(d), 0)

latest_cumulative(d) == cumulative_emissions(d)[Len(d)]

\* the budget less everything emitted so far
remaining_after_cumulative(d) == CARBON_BUDGET_GT - latest_cumulative(d)

remaining_budget(d) ==
    LET Recent(r) == r.year >= max_year(d) - 1
    IN  CARBON_BUDGET_GT - SumSeq(EmissionsOf(SelectSeq(d, Recent)))

years_left(d) == FDiv(Fin(remaining_budget(d), 1), Emission(d, Len(d)))

years_left_metric(d) == Format(PyMax0(years_left(d)), 1)

\* latest_cumulative + np.cumsum(future_emissions), in units of 1/Resolution
future_cumulative(d, fe) ==
    IF fe = <<>> THEN <<>>
    ELSE cumsum(fe, 1, Len(fe), Resolution * latest_cumulative(d))

\* latest_cumulative + remaining_budget, the level of the budget line
budget_limit(d) == latest_cumulative(d) + remaining_budget(d)

\* np.where(future_cumulative >= latest_cumulative + remaining_budget)[0]
exceed_idx(d, fc) ==
    LET limit == Resolution * budget_limit(d)
        Idx == [i \in 1..Len(fc) |-> i]
    IN  SelectSeq(Idx, LAMBDA i : fc[i] >= limit)

\* the warning with the year at the last exceeding index
exhaustion_last(d, ys, fc) ==
    LET idx == exceed_idx(d, fc)
    IN  IF Len(idx) > 0
        THEN [kind |-> "warning", year |-> ys[idx[Len(idx)]]]
        ELSE [kind |-> "success", year |-> 0]

\* the warning with the year at the first exceeding index, or the success
\* message
exhaustion(d, ys, fc) ==
    LET idx == exceed_idx(d, fc)
    IN  IF Len(idx) > 0
        THEN [kind |-> "warning", year |-> ys[idx[1]]]
        ELSE [kind |-> "success", year |-> 0]

(***************************************************************************)
(* One run of the script.  filtered_df.iloc[-1] raises IndexError on an    *)
(* empty selection: the run stops there and nothing below the sidebar is   *)
(* put on the page.                                                        *)
(***************************************************************************)
Blank(f, err) ==
    [error |-> err, filtered_df |-> f,
     latest |-> NotRendered, growth |-> NotRendered, avg_growth |-> NotRendered,
     era_summary |-> <<>>,
     horizon_slider |-> FALSE,
     future_years |-> <<>>, future_emissions |-> <<>>, future_cumulative |-> <<>>,
     budget_rendered |-> FALSE,
     latest_cumulative |-> 0, remaining_budget |-> 0,
     delta |-> NotRendered, years_left |-> NotRendered,
     exhaustion |-> [kind |-> "none", year |-> 0]]

Run(d, range, h) ==
    LET f == filtered_df(d, range)
        ys == future_years(d, h)
        fe == future_emissions(d, h)
        fc == future_cumulative(d, fe)
    IN  IF f = <<>>
        THEN Blank(f, "IndexError")
        ELSE [error |-> "none", filtered_df |-> f,
              latest |-> latest_metric(f),
              growth |-> Format(growth(f), 1),
              avg_growth |-> Format(avg_growth(f), 2),
              era_summary |-> era_summary(d),
              horizon_slider |-> TRUE,
              future_years |-> ys,
              future_emissions |-> fe,
              future_cumulative |-> fc,
              budget_rendered |-> TRUE,
              latest_cumulative |-> latest_cumulative(d),
              remaining_budget |-> remaining_budget(d),
              delta |-> Format(Emission(d, Len(d)), 1),
              years_left |-> years_left_metric(d),
              exhaustion |-> exhaustion(d, ys, fc)]

(***************************************************************************)
(* The dashboard: first run with the sliders at their defaults, then one   *)
(* run of the script per change of a slider.                               *)
(***************************************************************************)
Init ==
    /\ df \in load_data(YearChoices)
    /\ year_range = <<min_year(df), max_year(df)>>
    /\ forecast_horizon = HorizonDefault
    /\ out = Run(df, year_range, forecast_horizon)

SelectYearRange ==
    \E r \in SliderRanges(df) :
        /\ r # year_range
        /\ year_range' = r
        /\ out' = Run(df, r, forecast_horizon)
        /\ UNCHANGED <<df, forecast_horizon>>

\* the horizon slider is on the page only when the last run reached it
SelectForecastHorizon ==
    /\ out.horizon_slider
    /\ \E h \in HorizonChoices :
        /\ h # forecast_horizon
        /\ forecast_horizon' = h
        /\ out' = Run(df, year_range, h)
        /\ UNCHANGED <<df, year_range>>

Next == SelectYearRange \/ SelectForecastHorizon

Spec == Init /\ [][Next]_vars

(***************************************************************************)
(* The era table alone, on series that span the era boundaries.            *)
(***************************************************************************)
InitEra ==
    /\ df \in load_data(EraYearChoices)
    /\ year_range = <<min_year(df), max_year(df)>>
    /\ forecast_horizon = HorizonDefault
    /\ out = Blank(df, "none")

ClassifyEras ==
    /\ out.era_summary = <<>>
    /\ out' = [out EXCEPT !.era_summary = era_summary(df)]
    /\ UNCHANGED <<df, year_range, forecast_horizon>>

SpecEra == InitEra /\ [][ClassifyEras]_vars

(***************************************************************************)
(* Properties.                                                             *)
(***************************************************************************)
\* a KPI shown as "not applicable" / "N/A" / "unavailable"
NotApplicable == [k |-> "n/a", neg |-> FALSE, v |-> 0]

\* C1: for every selection the range slider allows, the filtered series is
\* non-empty, strictly ascending by year, and made of rows of the data set
\* whose year lies in the selected range.
C1_FilteredNonEmptyAscendingSubset ==
    (/\ min_year(df) <= year_range[1]
     /\ year_range[1] <= year_range[2]
     /\ year_range[2] <= max_year(df))
    => LET f == out.filtered_df
       IN  /\ f # <<>>
           /\ \A i \in 1..(Len(f) - 1) : f[i].year < f[i + 1].year
           /\ \A i \in 1..Len(f) :
                /\ \E j \in 1..Len(df) : f[i] = df[j]
                /\ year_range[1] <= f[i].year
                /\ f[i].year <= year_range[2]

\* C2: the running total is the cumulative emissions plus the forecast values
\* so far, the forecast years ascend, the exhaustion year is the first
\* forecast year whose running total reaches cumulative + remaining budget
\* (every earlier year is strictly below), and the result is "not exhausted"
\* exactly when no forecast year reaches it.
C2_ExhaustionYearIsFirstCrossing ==
    out.budget_rendered =>
        LET ys == out.future_years
            fe == out.future_emissions
            fc == out.future_cumulative
            n == Len(ys)
            base == Resolution * out.latest_cumulative
            limit == Resolution * (out.latest_cumulative + out.remaining_budget)
        IN  /\ Len(fe) = n
            /\ Len(fc) = n
            /\ \A i \in 1..n : fc[i] = (IF i = 1 THEN base ELSE fc[i - 1]) + fe[i]
            /\ \A i \in 1..(n - 1) : ys[i] < ys[i + 1]
            /\ IF \E i \in 1..n : fc[i] >= limit
               THEN /\ out.exhaustion.kind = "warning"
                    /\ \E i \in 1..n :
                         /\ ys[i] = out.exhaustion.year
                         /\ fc[i] >= limit
                         /\ \A j \in 1..(i - 1) : fc[j] < limit
               ELSE out.exhaustion.kind = "success"

\* C2 witness: a warning whose year is later than the first forecast year, so
\* that earlier forecast years stayed below the limit.
C2_Witness ==
    /\ out.budget_rendered
    /\ out.exhaustion.kind = "warning"
    /\ out.exhaustion.year > out.future_years[1] + 1

\* the other outcome of the walk is reached too: no forecast year reaches the
\* limit
C2_NotExhaustedReached == out.budget_rendered /\ out.exhaustion.kind = "success"

\* C3: the remaining budget is the budget constant less the emissions of the
\* rows whose year is max(year) - 1 or later (the last row and, when it is the
\* year before, the row before it); it is not the budget less the cumulative
\* emissions whenever an older row has emissions.
C3_RemainingBudgetSubtractsRecentYears ==
    out.budget_rendered =>
        LET n == Len(df)
            last == df[n].year
            before == IF n > 1 /\ df[n - 1].year = last - 1
                      THEN df[n - 1].emissions ELSE 0
            older == {i \in 1..n : df[i].year < last - 1 /\ df[i].emissions > 0}
        IN  /\ out.remaining_budget = CARBON_BUDGET_GT - (df[n].emissions + before)
            /\ older # {} =>
                 out.remaining_budget # CARBON_BUDGET_GT - out.latest_cumulative

\* C3 witness: a rendered budget for a series with emissions before
\* max(year) - 1.
C3_Witness ==
    /\ out.budget_rendered
    /\ \E i \in 1..Len(df) :
         df[i].year < df[Len(df)].year - 1 /\ df[i].emissions > 0

\* what the forecast and carbon-budget sections show
BudgetView ==
    <<out.future_years, out.future_emissions, out.future_cumulative,
      out.latest_cumulative, out.remaining_budget, out.years_left, out.exhaustion>>

\* C4: two runs over the same series with the same horizon show the same
\* forecast and carbon-budget outputs, whatever the year range.
C4_ForecastIndependentOfYearRange ==
    [][forecast_horizon' = forecast_horizon => BudgetView' = BudgetView]_vars

\* C4, for the runs that reach the forecast section: there the outputs do not
\* depend on the year range.
C4_IndependentWhenRendered ==
    [][(forecast_horizon' = forecast_horizon /\ out.budget_rendered
            /\ out'.budget_rendered)
        => BudgetView' = BudgetView]_vars

\* C5: for a horizon H in [2030, 2100] the forecast has one point per year
\* from the last historical year through H, ascending: first year the last
\* historical year, last year H, H - max(year) + 1 points.
C5_ForecastYearsLastYearThroughHorizon ==
    out.horizon_slider =>
        LET ys == out.future_years
            last == df[Len(df)].year
        IN  /\ forecast_horizon \in 2030..2100
            /\ Len(ys) = forecast_horizon - last + 1
            /\ Len(out.future_emissions) = Len(ys)
            /\ ys[1] = last
            /\ ys[Len(ys)] = forecast_horizon
            /\ \A i \in 1..Len(ys) : ys[i] = last + i - 1

\* C5 witness: a forecast computed after the horizon slider was moved to its
\* maximum.
C5_Witness ==
    /\ out.horizon_slider
    /\ forecast_horizon = HorizonMax
    /\ Len(out.future_years) = HorizonMax - df[Len(df)].year + 1

\* C6: with exactly one row selected, both growth metrics read "not
\* applicable".
C6_SingleRowGrowthNotApplicable ==
    (out.error = "none" /\ Len(out.filtered_df) = 1)
    => (out.growth = NotApplicable /\ out.avg_growth = NotApplicable)

\* C7: with two or more rows selected, a growth percentage taken against a zero
\* baseline reads "N/A".
C7_ZeroBaselineGrowthNotApplicable ==
    (out.error = "none" /\ Len(out.filtered_df) >= 2)
    => LET f == out.filtered_df
       IN  /\ f[1].emissions = 0 => out.growth = NotApplicable
           /\ (\E i \in 2..Len(f) : f[i - 1].emissions = 0)
                => out.avg_growth = NotApplicable

\* C8 as written: one row per era that has a year in the series, the rows in
\* the order given by rank.
EraRowsInOrder(rank(_)) ==
    out.era_summary # <<>> =>
        LET s == out.era_summary
            EraOf(y) == IF y < 1850 THEN "Pre-Industrial"
                        ELSE IF y < 1950 THEN "Industrialization"
                        ELSE "Post-1950 Acceleration"
            present == {EraOf(df[i].year) : i \in 1..Len(df)}
        IN  /\ {s[j].era : j \in 1..Len(s)} = present
            /\ Len(s) = Cardinality(present)
            /\ \A j \in 1..(Len(s) - 1) : rank(s[j].era) < rank(s[j + 1].era)

ChronologicalRank(l) ==
    CASE l = "Pre-Industrial" -> 1
      [] l = "Industrialization" -> 2
      [] l = "Post-1950 Acceleration" -> 3

AlphabeticalRank(l) ==
    CASE l = "Industrialization" -> 1
      [] l = "Post-1950 Acceleration" -> 2
      [] l = "Pre-Industrial" -> 3

\* C8: the era table has exactly one row per era that has a year in the series,
\* in the order Pre-Industrial, Industrialization, Post-1950 Acceleration.
C8_EraRowsChronological == EraRowsInOrder(ChronologicalRank)

\* C8, amended: the era table has exactly one row per era that has a year in
\* the series, in the alphabetical order of the era labels: Industrialization,
\* Post-1950 Acceleration, Pre-Industrial.
C8_EraRowsAlphabetical == EraRowsInOrder(AlphabeticalRank)

\* C8 witness: an era table with all three eras.
C8_Witness == Len(out.era_summary) = 3

\* C9: with fewer than 3 rows in the full series the fit fails with
\* InsufficientData: no forecast points, the forecast and budget sections
\* skipped, the KPIs and the era table still rendered.
C9_FewerThanThreeRowsInsufficientData ==
    Len(df) < 3 =>
        /\ out.error = "InsufficientData"
        /\ out.future_emissions = <<>>
        /\ ~out.budget_rendered
        /\ out.latest # NotRendered
        /\ out.era_summary # <<>>

\* C10: the years-until-exhausted figure is remaining budget / last year's
\* emissions floored at 0, never negative: a non-negative number (infinite when
\* a positive budget is divided by 0 emissions).
C10_YearsLeftFlooredQuotient ==
    out.budget_rendered =>
        LET last == df[Len(df)].emissions
            rem == out.remaining_budget
            shown == out.years_left
        IN  /\ shown.k \in {"num", "inf"}
            /\ ~shown.neg
            /\ last > 0 =>
                 /\ shown.k = "num"
                 /\ shown.v = RoundHalfEven(10 * (IF rem > 0 THEN rem ELSE 0), last)
            /\ (last = 0 /\ rem > 0) => shown.k = "inf"
            /\ (last = 0 /\ rem < 0) => (shown.k = "num" /\ shown.v = 0)

====
